---- MODULE Spec2Model ----
(***************************************************************************)
(* FaissStore (backend/ingest/store.py): a flat FAISS index, a parallel    *)
(* list of IDs and a JSONL metadata sidecar in one data directory; and the *)
(* upload pipeline that feeds it (backend/app.py, backend/ingest/chunker.py*)
(* and extractor.py).                                                      *)
(*                                                                         *)
(* Vectors are sequences of small integers: the source converts every      *)
(* vector to float32, and the values used here (and their products and     *)
(* sums) are exactly representable in float32.  A component c stands for   *)
(* c/10, so <<9, 1>> is [0.9, 0.1] and a score s stands for s/100.         *)
(* Positions are 1-based (Python position p is p+1 here); FAISS's padding  *)
(* label -1 is NoLabel.                                                    *)
(***************************************************************************)
EXTENDS Integers, Sequences, FiniteSets, TLC

VARIABLES
    dirExists,    \* the data directory exists on disk
    idxFile,      \* data_dir/faiss.index
    idsFile,      \* data_dir/ids.json
    metaFile,     \* data_dir/meta.jsonl
    constructed,  \* a FaissStore instance exists
    index,        \* self.index of the instance
    ids,          \* self.ids of the instance
    ret,          \* the last call and what it returned or raised
    nStores,      \* constructor calls so far
    nFaults,      \* I/O faults met so far
    pc,           \* the round-trip scenario's position ("run" outside it)
    prev,         \* the round-trip scenario's first store, as it was at persist()
    upload,       \* the last Chunker.process or handle_upload call and its outcome
    thr           \* the searches in progress, one per thread

vars == <<dirExists, idxFile, idsFile, metaFile, constructed, index, ids, ret,
          nStores, nFaults, pc, prev, upload, thr>>

disk == <<dirExists, idxFile, idsFile, metaFile>>

----------------------------------------------------------------------------
(* Bounds of the model. *)

\* the most vectors an index holds
MaxItems == 2
\* the most items in one upsert batch
MaxBatch == 2
\* the most writes (records and torn fragments) the sidecar holds
MaxMeta == 2
\* the most constructor calls in one run
MaxStores == 2
\* the most I/O faults in one run
MaxFaults == 1
\* the most items of a search fixture
MaxFixture == 3

----------------------------------------------------------------------------
(* Inputs. *)

Dims == {1, 2}

\* the metric argument of the constructor; "cos" is not a metric of the store
MetricArgs == {"ip", "l2", "cos"}

\* items as callers pass them; a field an item lacks is not in its domain
WellFormedItems ==
    { [id |-> "a", text |-> "x", vector |-> <<10, 0>>, metadata |-> "{k:1}"],
      [id |-> "b", text |-> "y", vector |-> <<0, 10>>],
      [id |-> "a", text |-> "y", vector |-> <<9, 1>>, metadata |-> "{k:2}"] }

ItemPool ==
    WellFormedItems
    \cup { [text |-> "x", vector |-> <<10, 0>>],
           [id |-> "b", text |-> "x", vector |-> <<5>>],
           [id |-> "a", text |-> "x"] }

\* the items of the search fixtures: ItemPool's well-formed items and a
\* third id, so that [1,0], [0,1], [0.9,0.1] can be stored under three ids
FixtureItems ==
    WellFormedItems \cup { [id |-> "c", text |-> "z", vector |-> <<9, 1>>] }

Batches ==
    {<<>>} \cup UNION { [1..n -> ItemPool] : n \in 1..MaxBatch }

Queries == { <<10, 0>>, <<10, 10>>, <<5>> }

TopKs == 0..MaxItems

----------------------------------------------------------------------------
(* Files. *)

NoIndexFile == [st |-> "missing", fourcc |-> "", d |-> 0, ntotal |-> 0, xb |-> <<>>]

CorruptIndexFile == [st |-> "corrupt", fourcc |-> "", d |-> 0, ntotal |-> 0, xb |-> <<>>]

NoIdsFile == [st |-> "missing", json |-> <<>>]

CorruptIdsFile == [st |-> "corrupt", json |-> <<>>]

\* a fragment of a record's line that a failed write left without its newline
Torn == [kind |-> "torn", id |-> "", text |-> "", metadata |-> ""]

\* faiss.write_index of a flat index: its fourcc, d, ntotal and the vectors
WriteIndex(ix) ==
    [st |-> "ok",
     fourcc |-> IF ix.metric = "ip" THEN "IxFI" ELSE "IxF2",
     d |-> ix.d,
     ntotal |-> Len(ix.xb),
     xb |-> ix.xb]

\* a reader that takes every flat index for an inner-product one
ReadIndexAsIP(f) ==
    [metric |-> "ip", d |-> f.d, xb |-> SubSeq(f.xb, 1, f.ntotal)]

\* faiss.read_index of a file WriteIndex wrote
ReadIndex(f) ==
    [metric |-> IF f.fourcc = "IxFI" THEN "ip" ELSE "l2",
     d |-> f.d,
     xb |-> SubSeq(f.xb, 1, f.ntotal)]

\* json.dump of the list of IDs
JsonDump(l) == [st |-> "ok", json |-> l]

\* json.load of a file JsonDump wrote
JsonLoad(f) == f.json

----------------------------------------------------------------------------
(* The fault an I/O step of a call meets, if any.  "open": the file cannot *)
(* be opened and stays as it was.  "write": the write stops part-way.      *)

NoFault == [at |-> "none", how |-> "none", n |-> 0, torn |-> FALSE]

Faults ==
    {NoFault}
    \cup { [at |-> a, how |-> h, n |-> 0, torn |-> FALSE] :
             a \in {"idx", "ids"}, h \in {"open", "write"} }
    \cup { [at |-> "meta", how |-> "open", n |-> 0, torn |-> FALSE] }
    \cup { [at |-> "meta", how |-> "write", n |-> n, torn |-> t] :
             n \in 0..(MaxBatch - 1), t \in BOOLEAN }

ReadFaults == {"none", "idx", "ids"}

\* a call that may meet a fault counts it
CountFault(faulty) ==
    /\ faulty => nFaults < MaxFaults
    /\ nFaults' = IF faulty THEN nFaults + 1 ELSE nFaults

----------------------------------------------------------------------------
(* __init__ *)

NewIndex(dim, metric) == [metric |-> metric, d |-> dim, xb |-> <<>>]

\* a call that returns no value: the operation and "ok" or the error raised
NoRet(op, outcome) ==
    [op |-> op, outcome |-> outcome, q |-> <<>>, k |-> 0, I |-> <<>>, hits |-> <<>>]

FaissStoreInit(dim, metric) ==
    /\ nStores < MaxStores
    /\ nStores' = nStores + 1
    /\ UNCHANGED nFaults
    /\ dirExists' = TRUE
    /\ IF metric \in {"ip", "l2"}
         THEN /\ constructed' = TRUE
              /\ index' = NewIndex(dim, metric)
              /\ ids' = <<>>
              /\ metaFile' = IF metaFile.exists THEN metaFile
                             ELSE [exists |-> TRUE, data |-> <<>>]
              /\ ret' = NoRet("init", "ok")
         ELSE /\ ret' = NoRet("init", "ValueError")
              /\ UNCHANGED <<constructed, index, ids, metaFile>>
    /\ UNCHANGED <<idxFile, idsFile>>

----------------------------------------------------------------------------
(* persist *)

PersistFiles(ix, l, fIdx, fIds, fault) ==
    IF fault.at = "idx"
      THEN [idxFile |-> IF fault.how = "open" THEN fIdx ELSE CorruptIndexFile,
            idsFile |-> fIds,
            outcome |-> "RuntimeError"]
    ELSE IF fault.at = "ids"
      THEN [idxFile |-> WriteIndex(ix),
            idsFile |-> IF fault.how = "open" THEN fIds ELSE CorruptIdsFile,
            outcome |-> "OSError"]
    ELSE [idxFile |-> WriteIndex(ix), idsFile |-> JsonDump(l), outcome |-> "ok"]

Persist(fault) ==
    /\ constructed
    /\ fault.at \in {"none", "idx", "ids"}
    /\ CountFault(fault.at # "none")
    /\ UNCHANGED nStores
    /\ LET p == PersistFiles(index, ids, idxFile, idsFile, fault) IN
         /\ idxFile' = p.idxFile
         /\ idsFile' = p.idsFile
         /\ ret' = NoRet("persist", p.outcome)
    /\ UNCHANGED <<dirExists, metaFile, constructed, index, ids>>

----------------------------------------------------------------------------
(* load *)

Load(rfault) ==
    /\ constructed
    /\ rfault = "idx" => idxFile.st = "ok"
    /\ rfault = "ids" => idxFile.st # "corrupt" /\ idsFile.st = "ok"
    /\ CountFault(rfault # "none")
    /\ UNCHANGED nStores
    /\ LET idxRaises == idxFile.st # "missing"
                        /\ (idxFile.st = "corrupt" \/ rfault = "idx")
           idsRaises == idsFile.st # "missing"
                        /\ (idsFile.st = "corrupt" \/ rfault = "ids")
       IN
         /\ index' = IF idxFile.st # "missing" /\ ~idxRaises
                       THEN ReadIndex(idxFile) ELSE index
         /\ ids' = IF ~idxRaises /\ idsFile.st # "missing" /\ ~idsRaises
                     THEN JsonLoad(idsFile) ELSE ids
         /\ ret' = NoRet("load", IF idxRaises THEN "RuntimeError"
                                 ELSE IF idsRaises THEN "ReadError"
                                 ELSE "ok")
    /\ UNCHANGED <<disk, constructed>>

----------------------------------------------------------------------------
(* upsert *)

HasField(items, fld) == \A i \in 1..Len(items) : fld \in DOMAIN items[i]

\* np.array(..., dtype="float32") of rows of unequal length raises ValueError
Ragged(items) ==
    \E i, j \in 1..Len(items) : Len(items[i].vector) # Len(items[j].vector)

\* an add that checks no dimension
DimMismatchUnchecked(ix, items) == FALSE

\* index.add(vecs) asserts vecs.shape[1] == index.d before it adds anything
DimMismatch(ix, items) == Len(items[1].vector) # ix.d

\* an add that puts the new rows before the stored ones
IndexAddFront(ix, items) ==
    [ix EXCEPT !.xb = [i \in 1..Len(items) |-> items[i].vector] \o ix.xb]

\* index.add(vecs), past its assertion: the rows go after the stored ones
IndexAdd(ix, items) ==
    [ix EXCEPT !.xb = ix.xb \o [i \in 1..Len(items) |-> items[i].vector]]

ItemIds(items) == [i \in 1..Len(items) |-> items[i].id]

\* the line upsert writes for an item: text and metadata default to "" and {}
MetaRecord(it) ==
    [kind |-> "rec",
     id |-> it.id,
     text |-> IF "text" \in DOMAIN it THEN it.text ELSE "",
     metadata |-> IF "metadata" \in DOMAIN it THEN it.metadata ELSE "{}"]

MetaRecords(items) == [i \in 1..Len(items) |-> MetaRecord(items[i])]

\* a write that opens the sidecar with mode "w": only the batch's lines are left
AppendMetaTruncating(f, items, fault) ==
    [exists |-> TRUE, data |-> MetaRecords(items)]

\* what the append of the batch's lines leaves in the sidecar
AppendMeta(f, items, fault) ==
    IF fault.at # "meta"
      THEN [exists |-> TRUE, data |-> f.data \o MetaRecords(items)]
    ELSE IF fault.how = "open"
      THEN f
    ELSE [exists |-> TRUE,
          data |-> f.data \o SubSeq(MetaRecords(items), 1, fault.n)
                          \o (IF fault.torn THEN <<Torn>> ELSE <<>>)]

\* the calls after the vectors and IDs are in memory: the sidecar append,
\* then persist()
UpsertWrites(items, fault) ==
    /\ fault.at = "meta" /\ fault.how = "write" => fault.n < Len(items)
    /\ CountFault(fault.at # "none")
    /\ metaFile' = AppendMeta(metaFile, items, fault)
    /\ IF fault.at = "meta"
         THEN /\ ret' = NoRet("upsert", "OSError")
              /\ UNCHANGED <<idxFile, idsFile>>
       ELSE LET p == PersistFiles(IndexAdd(index, items), ids \o ItemIds(items),
                                  idxFile, idsFile, fault) IN
              /\ idxFile' = p.idxFile
              /\ idsFile' = p.idsFile
              /\ ret' = NoRet("upsert", p.outcome)

Upsert(items) ==
    /\ constructed
    /\ Len(index.xb) + Len(items) <= MaxItems
    /\ Len(metaFile.data) + Len(items) <= MaxMeta
    /\ UNCHANGED <<dirExists, constructed, nStores>>
    /\ IF items = <<>>
         THEN /\ ret' = NoRet("upsert", "ok")
              /\ UNCHANGED <<index, ids, idxFile, idsFile, metaFile, nFaults>>
       ELSE IF ~HasField(items, "vector")
         THEN /\ ret' = NoRet("upsert", "KeyError")
              /\ UNCHANGED <<index, ids, idxFile, idsFile, metaFile, nFaults>>
       ELSE IF Ragged(items)
         THEN /\ ret' = NoRet("upsert", "ValueError")
              /\ UNCHANGED <<index, ids, idxFile, idsFile, metaFile, nFaults>>
       ELSE IF DimMismatch(index, items)
         THEN /\ ret' = NoRet("upsert", "AssertionError")
              /\ UNCHANGED <<index, ids, idxFile, idsFile, metaFile, nFaults>>
       ELSE /\ index' = IndexAdd(index, items)
            /\ IF ~HasField(items, "id")
                 THEN /\ ret' = NoRet("upsert", "KeyError")
                      /\ UNCHANGED <<ids, idxFile, idsFile, metaFile, nFaults>>
               ELSE /\ ids' = ids \o ItemIds(items)
                    /\ \E fault \in Faults : UpsertWrites(items, fault)

----------------------------------------------------------------------------
(* The flat index's search. *)

NoLabel == 0

RECURSIVE Dot(_, _)
Dot(u, v) == IF u = <<>> THEN 0 ELSE Head(u) * Head(v) + Dot(Tail(u), Tail(v))

RECURSIVE L2Sqr(_, _)
L2Sqr(u, v) ==
    IF u = <<>> THEN 0
    ELSE (Head(u) - Head(v)) * (Head(u) - Head(v)) + L2Sqr(Tail(u), Tail(v))

\* IndexFlatIP scores by inner product, IndexFlatL2 by squared distance
Score(ix, q, p) ==
    IF ix.metric = "ip" THEN Dot(q, ix.xb[p]) ELSE L2Sqr(q, ix.xb[p])

\* s ranks strictly before t under the metric
Better(metric, s, t) == IF metric = "ip" THEN s > t ELSE s < t

Min(a, b) == IF a <= b THEN a ELSE b

\* a search that returns the first min(k, ntotal) positions, unranked
IndexSearchUnranked(ix, q, k) ==
    { [i \in 1..k |-> IF i <= Min(k, Len(ix.xb)) THEN i ELSE NoLabel] }

\* The label rows index.search(q, k) can return for one query: the
\* min(k, ntotal) best positions, best first, padded with NoLabel.  FAISS
\* documents no order among equal scores (its heap, reservoir and top-1
\* result handlers differ), so every order of a tie is a possible row.
IndexSearch(ix, q, k) ==
    LET n == Len(ix.xb)
        m == Min(k, n)
        sc == [p \in 1..n |-> Score(ix, q, p)]
        ranked == { r \in [1..m -> 1..n] :
                      /\ \A i, j \in 1..m : i # j => r[i] # r[j]
                      /\ \A i \in 1..(m - 1) :
                           ~Better(ix.metric, sc[r[i + 1]], sc[r[i]])
                      /\ \A p \in 1..n :
                           (\A i \in 1..m : r[i] # p) =>
                             \A i \in 1..m : ~Better(ix.metric, sc[p], sc[r[i]]) }
    IN { [i \in 1..k |-> IF i <= m THEN r[i] ELSE NoLabel] : r \in ranked }

----------------------------------------------------------------------------
(* _load_meta_map *)

\* the rest of the file after the line a torn fragment starts: the fragment
\* has no newline, so the line runs on to the end of the next whole record
RECURSIVE AfterTornLine(_)
AfterTornLine(data) ==
    IF data = <<>> THEN <<>>
    ELSE IF Head(data).kind = "torn" THEN AfterTornLine(Tail(data))
    ELSE Tail(data)

\* the file's lines, as "for line in f" yields them; a line holding a torn
\* fragment is Torn (a strict prefix of a JSON object, alone or followed by
\* another object, is no JSON document)
RECURSIVE Lines(_)
Lines(data) ==
    IF data = <<>> THEN <<>>
    ELSE IF Head(data).kind = "rec" THEN <<Head(data)>> \o Lines(Tail(data))
    ELSE <<Torn>> \o Lines(AfterTornLine(Tail(data)))

\* a meta_map that keeps each id's first record
LoadMetaMapFirst(f) ==
    LET lines == Lines(f.data)
        n == Len(lines)
        keys == { lines[i].id : i \in 1..n }
    IN [raises |-> "none",
        map |-> [key \in keys |->
                   lines[CHOOSE i \in 1..n :
                           /\ lines[i].id = key
                           /\ \A j \in 1..(i - 1) : lines[j].id # key]]]

\* meta_map: each id's last record; raises when the file is missing or a
\* line does not parse
LoadMetaMap(f) ==
    LET lines == Lines(f.data)
        n == Len(lines)
        keys == { lines[i].id : i \in 1..n }
    IN IF ~f.exists THEN [raises |-> "FileNotFoundError", map |-> <<>>]
       ELSE IF \E i \in 1..n : lines[i].kind = "torn"
         THEN [raises |-> "JSONDecodeError", map |-> <<>>]
       ELSE [raises |-> "none",
             map |-> [key \in keys |->
                        lines[CHOOSE i \in 1..n :
                                /\ lines[i].id = key
                                /\ \A j \in (i + 1)..n : lines[j].id # key]]]

----------------------------------------------------------------------------
(* search_by_vector *)

\* the ranks of I[0] the loop keeps: it skips idx < 0 and idx >= len(self.ids)
KeptRanks(I, l) ==
    SelectSeq([r \in 1..Len(I) |-> r], LAMBDA r : ~(I[r] < 1 \/ I[r] > Len(l)))

\* The hits the loop over I[0] builds.  A record found in meta_map is one
\* dict object: every hit of that id is that object, and rec["score"] set at
\* a later rank is what all of them show.  A hit whose id has no record gets
\* a dict of its own.
SearchHits(ix, l, q, I, map) ==
    LET kept == KeptRanks(I, l)
        lastRank(id) == CHOOSE h \in 1..Len(kept) :
                          /\ l[I[kept[h]]] = id
                          /\ \A g \in (h + 1)..Len(kept) : l[I[kept[g]]] # id
    IN [h \in 1..Len(kept) |->
          LET id == l[I[kept[h]]] IN
            IF id \in DOMAIN map
              THEN [id |-> map[id].id, text |-> map[id].text,
                    metadata |-> map[id].metadata,
                    score |-> Score(ix, q, I[kept[lastRank(id)]])]
              ELSE [id |-> id, text |-> "", metadata |-> "{}",
                    score |-> Score(ix, q, I[kept[h]])]]

SearchRet(outcome, q, k, I, hits) ==
    [op |-> "search", outcome |-> outcome, q |-> q, k |-> k, I |-> I, hits |-> hits]

\* what search_by_vector(q, k) can return or raise on a store holding index
\* ix and ID list l over sidecar f
SearchResults(ix, l, f, q, k) ==
    IF l = <<>>
      THEN { SearchRet("ok", q, k, <<>>, <<>>) }
    ELSE IF Len(q) # ix.d \/ k < 1
      THEN { SearchRet("AssertionError", q, k, <<>>, <<>>) }
    ELSE LET mm == LoadMetaMap(f) IN
      IF mm.raises # "none"
        THEN { SearchRet(mm.raises, q, k, <<>>, <<>>) }
      ELSE { SearchRet("ok", q, k, I, SearchHits(ix, l, q, I, mm.map)) :
               I \in IndexSearch(ix, q, k) }

SearchByVector(q, k) ==
    /\ constructed
    /\ ret' \in SearchResults(index, ids, metaFile, q, k)
    /\ UNCHANGED <<disk, constructed, index, ids, nStores, nFaults>>

----------------------------------------------------------------------------
(* Extractor.ingest_pdf, Chunker.process and handle_upload                 *)
(* (backend/ingest/extractor.py, backend/ingest/chunker.py, backend/app.py)*)

\* the most characters of a text
MaxText == 1
\* the most documents the splitter returns and vectors embed_fn returns
MaxChunks == 2

\* a text is a sequence of characters: a blank and a letter
Chars == {" ", "w"}

Texts == UNION { [1..n -> Chars] : n \in 0..MaxText }

DocIds == {"d", "e"}

\* base_meta as process is given it: None
BaseMetas == {""}

\* str.strip()
RECURSIVE LStrip(_)
LStrip(t) == IF t # <<>> /\ Head(t) = " " THEN LStrip(Tail(t)) ELSE t

RECURSIVE RStrip(_)
RStrip(t) ==
    IF t # <<>> /\ t[Len(t)] = " " THEN RStrip(SubSeq(t, 1, Len(t) - 1)) ELSE t

Strip(t) == RStrip(LStrip(t))

\* re.sub(r"[ \t]+", " ", text): a run of blanks becomes one blank
RECURSIVE Collapse(_)
Collapse(t) ==
    IF Len(t) < 2 THEN t
    ELSE IF t[1] = " " /\ t[2] = " " THEN Collapse(Tail(t))
    ELSE <<Head(t)>> \o Collapse(Tail(t))

\* Extractor._clean_text on texts over Chars
CleanText(t) == IF t = <<>> THEN <<>> ELSE Strip(Collapse(t))

\* the PDFs of an upload: one that cannot be read and one-page PDFs of a text
Pdfs ==
    { [readable |-> FALSE, text |-> <<>>, pages |-> 0] }
    \cup { [readable |-> TRUE, text |-> t, pages |-> 1] : t \in Texts }

\* Extractor.ingest_pdf: the cleaned text and the entries of meta besides
\* doc_id, or ValueError
IngestPdf(pdf) ==
    IF ~pdf.readable THEN [raises |-> "ValueError", text |-> <<>>, meta |-> ""]
    ELSE LET clean == CleanText(pdf.text) IN
      [raises |-> "none",
       text |-> clean,
       meta |-> "n_pages:" \o ToString(pdf.pages)
                \o ",length_chars:" \o ToString(Len(clean)) \o ","]

\* what splitter.create_documents([text]) does: it raises (its embedding
\* call failed) or returns the page contents of its documents
SplitOutcomes ==
    { [raises |-> TRUE, docs |-> <<>>] }
    \cup { [raises |-> FALSE, docs |-> d] :
             d \in UNION { [1..n -> {"p"}] : n \in 0..MaxChunks } }

\* what embed_fn(texts) does: it raises or returns a list of vectors
EmbedOutcomes ==
    { [raises |-> TRUE, vectors |-> <<>>] }
    \cup { [raises |-> FALSE, vectors |-> v] :
             v \in UNION { [1..n -> {<<10, 0>>}] : n \in 0..MaxChunks } }

\* a test that takes no text for blank
BlankTextNever(text) == FALSE

\* not text or not text.strip()
BlankText(text) == text = <<>> \/ Strip(text) = <<>>

\* f"{doc_id}::chunk_{i:05d}", for i < 10
ChunkId(doc_id, i) == doc_id \o "::chunk_0000" \o ToString(i)

\* {**base_meta, "doc_id": doc_id, "chunk_index": i}
ChunkMeta(base_meta, doc_id, i) ==
    "{doc_id:" \o doc_id \o "," \o base_meta \o "chunk_index:" \o ToString(i) \o "}"

\* Chunker._make_chunks past its blank-text return: a ChunkRecord per document
MakeChunks(docs, doc_id, base_meta) ==
    [i \in 1..Len(docs) |->
       [id |-> ChunkId(doc_id, i - 1),
        text |-> docs[i],
        metadata |-> ChunkMeta(base_meta, doc_id, i - 1)]]

\* a comparison that takes every count for the right one
CountMismatchUnchecked(vectors, chunks) == FALSE

\* len(vectors) != len(chunks)
CountMismatch(vectors, chunks) == Len(vectors) # Len(chunks)

\* zip(chunks, vectors) stops at the shorter of the two
ZipItems(chunks, vectors) ==
    [i \in 1..Min(Len(chunks), Len(vectors)) |->
       [id |-> chunks[i].id, text |-> chunks[i].text,
        vector |-> vectors[i], metadata |-> chunks[i].metadata]]

\* Chunker.process: what it returns or raises, whether it called the
\* splitter and embed_fn, the number of chunks it made and what embed_fn did
ProcessRet(outcome, items, splits, embeds, chunks, emb) ==
    [outcome |-> outcome, items |-> items, splits |-> splits, embeds |-> embeds,
     chunks |-> Len(chunks),
     embRaised |-> embeds = 1 /\ emb.raises,
     vectors |-> IF embeds = 1 THEN Len(emb.vectors) ELSE 0]

Process(text, doc_id, base_meta, split, emb) ==
    IF BlankText(text)
      THEN ProcessRet("ok", <<>>, 0, 0, <<>>, emb)
    ELSE IF split.raises
      THEN ProcessRet("ProviderError", <<>>, 1, 0, <<>>, emb)
    ELSE LET chunks == MakeChunks(split.docs, doc_id, base_meta) IN
      IF chunks = <<>>
        THEN ProcessRet("ok", <<>>, 1, 0, chunks, emb)
      ELSE IF emb.raises
        THEN ProcessRet("ProviderError", <<>>, 1, 1, chunks, emb)
      ELSE IF CountMismatch(emb.vectors, chunks)
        THEN ProcessRet("ValueError", <<>>, 1, 1, chunks, emb)
      ELSE ProcessRet("ok", ZipItems(chunks, emb.vectors), 1, 1, chunks, emb)

\* the record of a Chunker.process or handle_upload call: the text process
\* was given, the outcome, what process did, and the calls made to
\* store.upsert
UploadRet(op, text, outcome, p, upserts) ==
    [op |-> op, text |-> text, outcome |-> outcome, items |-> p.items,
     splits |-> p.splits, embeds |-> p.embeds, chunks |-> p.chunks,
     embRaised |-> p.embRaised, vectors |-> p.vectors, upserts |-> upserts]

NoProcess ==
    [outcome |-> "none", items |-> <<>>, splits |-> 0, embeds |-> 0,
     chunks |-> 0, embRaised |-> FALSE, vectors |-> 0]

NoUpload == UploadRet("none", <<>>, "ok", NoProcess, 0)

\* chunker.process called on its own
ChunkerProcess(text, doc_id, base_meta, split, emb) ==
    /\ upload' = UploadRet("process", text,
                           Process(text, doc_id, base_meta, split, emb).outcome,
                           Process(text, doc_id, base_meta, split, emb), 0)
    /\ UNCHANGED <<disk, constructed, index, ids, ret, nStores, nFaults>>

\* handle_upload: ingest_pdf, process, store.upsert(items); an exception of
\* any of them ends the call
HandleUpload(pdf, doc_id, split, emb) ==
    LET ext == IngestPdf(pdf)
        p == Process(ext.text, doc_id, ext.meta, split, emb)
    IN /\ constructed
       /\ IF ext.raises # "none"
            THEN /\ upload' = UploadRet("handle_upload", <<>>, ext.raises, NoProcess, 0)
                 /\ UNCHANGED <<disk, constructed, index, ids, ret, nStores, nFaults>>
          ELSE IF p.outcome # "ok"
            THEN /\ upload' = UploadRet("handle_upload", ext.text, p.outcome, p, 0)
                 /\ UNCHANGED <<disk, constructed, index, ids, ret, nStores, nFaults>>
          ELSE /\ Upsert(p.items)
               /\ upload' = UploadRet("handle_upload", ext.text, ret'.outcome, p, 1)

\* the module-level store of app.py: constructed when the process starts,
\* never loaded; AppDim stands for 3072
AppDim == 2

AppStart == FaissStoreInit(AppDim, "ip")

----------------------------------------------------------------------------
(* Searches running in threads: search_by_vector and search_by_text step   *)
(* by step, each read of the store (self.ids, self.index, meta.jsonl) a    *)
(* step of its own.                                                        *)

Threads == {1, 2}

\* a thread's call: where it is, its arguments, what index.search returned
\* (labels and scores), the meta_map it loaded, and what the call returned
Idle ==
    [pc |-> "idle", q |-> <<>>, k |-> 0, I |-> <<>>, scores |-> <<>>,
     meta |-> <<>>, hits |-> <<>>, outcome |-> "none"]

NoThreads == [t \in Threads |-> Idle]

\* the call ends: it returns hits or raises
Done(c, outcome, hits) ==
    [c EXCEPT !.pc = "done", !.outcome = outcome, !.hits = hits]

\* search_by_vector(q, k) is called
CallSearchByVector(t, q, k) ==
    /\ constructed
    /\ thr[t].pc = "idle"
    /\ thr' = [thr EXCEPT ![t] = [Idle EXCEPT !.pc = "ids", !.q = q, !.k = k]]

\* search_by_text(query, embed_fn, k) is called
CallSearchByText(t, k) ==
    /\ constructed
    /\ thr[t].pc = "idle"
    /\ thr' = [thr EXCEPT ![t] = [Idle EXCEPT !.pc = "embed", !.k = k]]

\* vec = embed_fn([query])[0]: embed_fn raises, or the vector is searched
EmbedQuery(t) ==
    /\ thr[t].pc = "embed"
    /\ \/ thr' = [thr EXCEPT ![t] = Done(@, "ProviderError", <<>>)]
       \/ \E q \in Queries : thr' = [thr EXCEPT ![t] = [@ EXCEPT !.pc = "ids", !.q = q]]

\* if not self.ids: return []
CheckIds(t) ==
    /\ thr[t].pc = "ids"
    /\ thr' = [thr EXCEPT ![t] =
                 IF ids = <<>> THEN Done(@, "ok", <<>>) ELSE [@ EXCEPT !.pc = "index"]]

\* scores, I = self.index.search(q, top_k)
SearchIndex(t) ==
    /\ thr[t].pc = "index"
    /\ IF Len(thr[t].q) # index.d \/ thr[t].k < 1
         THEN thr' = [thr EXCEPT ![t] = Done(@, "AssertionError", <<>>)]
       ELSE \E I \in IndexSearch(index, thr[t].q, thr[t].k) :
              thr' = [thr EXCEPT ![t] =
                        [@ EXCEPT !.pc = "meta",
                                  !.I = I,
                                  !.scores = [r \in 1..Len(I) |->
                                                IF I[r] = NoLabel THEN 0
                                                ELSE Score(index, thr[t].q, I[r])]]]

\* meta_map = self._load_meta_map()
ReadMeta(t) ==
    /\ thr[t].pc = "meta"
    /\ LET mm == LoadMetaMap(metaFile) IN
         thr' = [thr EXCEPT ![t] =
                   IF mm.raises # "none" THEN Done(@, mm.raises, <<>>)
                   ELSE [@ EXCEPT !.pc = "loop", !.meta = mm.map]]

\* the hits the loop builds from the labels and scores of a call: as
\* SearchHits, with the scores index.search returned
HitsOf(l, I, scores, map) ==
    LET kept == KeptRanks(I, l)
        lastRank(id) == CHOOSE h \in 1..Len(kept) :
                          /\ l[I[kept[h]]] = id
                          /\ \A g \in (h + 1)..Len(kept) : l[I[kept[g]]] # id
    IN [h \in 1..Len(kept) |->
          LET id == l[I[kept[h]]] IN
            IF id \in DOMAIN map
              THEN [id |-> map[id].id, text |-> map[id].text,
                    metadata |-> map[id].metadata,
                    score |-> scores[kept[lastRank(id)]]]
              ELSE [id |-> id, text |-> "", metadata |-> "{}",
                    score |-> scores[kept[h]]]]

\* a loop that reads the labels and scores from a buffer the threads share:
\* it takes those of the other thread's call when that call has them
BuildHitsShared(t) ==
    /\ thr[t].pc = "loop"
    /\ LET others == { o \in Threads \ {t} : thr[o].pc \in {"meta", "loop", "done"}
                                             /\ thr[o].I # <<>> }
           src == IF others = {} THEN t ELSE CHOOSE o \in others : TRUE
       IN thr' = [thr EXCEPT ![t] =
                    Done(@, "ok", HitsOf(ids, thr[src].I, thr[src].scores, @.meta))]

\* the loop over I[0] and the return of hits
BuildHits(t) ==
    /\ thr[t].pc = "loop"
    /\ thr' = [thr EXCEPT ![t] =
                 Done(@, "ok", HitsOf(ids, @.I, @.scores, @.meta))]

\* no step of a search writes to the store or its files
SearchWritesNothing ==
    UNCHANGED <<disk, constructed, index, ids, ret, nStores, nFaults>>

----------------------------------------------------------------------------
(* The store's life: any calls in any order, on one data directory. *)

NoPrev == [index |-> NewIndex(0, ""), ids |-> <<>>]

Init ==
    /\ dirExists = FALSE
    /\ idxFile = NoIndexFile
    /\ idsFile = NoIdsFile
    /\ metaFile = [exists |-> FALSE, data |-> <<>>]
    /\ constructed = FALSE
    /\ index = NewIndex(0, "")
    /\ ids = <<>>
    /\ ret = NoRet("none", "ok")
    /\ nStores = 0
    /\ nFaults = 0
    /\ pc = "run"
    /\ prev = NoPrev
    /\ upload = NoUpload
    /\ thr = NoThreads

Next ==
    \/ /\ \E dim \in Dims, metric \in MetricArgs : FaissStoreInit(dim, metric)
       /\ UNCHANGED <<pc, prev, upload, thr>>
    \/ /\ \E fault \in Faults : Persist(fault)
       /\ UNCHANGED <<pc, prev, upload, thr>>
    \/ /\ \E rfault \in ReadFaults : Load(rfault)
       /\ UNCHANGED <<pc, prev, upload, thr>>
    \/ /\ \E items \in Batches : Upsert(items)
       /\ UNCHANGED <<pc, prev, upload, thr>>
    \/ /\ \E q \in Queries, k \in TopKs : SearchByVector(q, k)
       /\ UNCHANGED <<pc, prev, upload, thr>>

Spec == Init /\ [][Next]_vars

----------------------------------------------------------------------------
(* Search fixtures: a store right after construction and the fault-free    *)
(* upsert of a batch of well-formed items, then one search (a search       *)
(* changes nothing a later search reads).                                  *)

Fixtures == UNION { [1..n -> FixtureItems] : n \in 1..MaxFixture }

FixtureTopKs == 0..(MaxFixture + 1)

InitSearch ==
    \E metric \in {"ip", "l2"}, items \in Fixtures :
      /\ dirExists = TRUE
      /\ constructed = TRUE
      /\ index = IndexAdd(NewIndex(2, metric), items)
      /\ ids = ItemIds(items)
      /\ metaFile = AppendMeta([exists |-> TRUE, data |-> <<>>], items, NoFault)
      /\ idxFile = WriteIndex(index)
      /\ idsFile = JsonDump(ids)
      /\ ret = NoRet("upsert", "ok")
      /\ nStores = 1
      /\ nFaults = 0
      /\ pc = "run"
      /\ prev = NoPrev
      /\ upload = NoUpload
      /\ thr = NoThreads

NextSearch ==
    /\ ret.op # "search"
    /\ \E q \in Queries, k \in FixtureTopKs : SearchByVector(q, k)
    /\ UNCHANGED <<pc, prev, upload, thr>>

SpecSearch == InitSearch /\ [][NextSearch]_vars

----------------------------------------------------------------------------
(* The round trip: a store is filled by successful upserts and persisted,  *)
(* a second store is constructed on the same directory, loads, and is      *)
(* searched.                                                               *)

RTConstruct ==
    /\ pc = "run"
    /\ \E dim \in Dims, metric \in {"ip", "l2"} : FaissStoreInit(dim, metric)
    /\ pc' = "fill"
    /\ UNCHANGED <<prev, upload, thr>>

RTUpsert ==
    /\ pc = "fill"
    /\ \E items \in Batches : Upsert(items)
    /\ ret'.outcome = "ok"
    /\ UNCHANGED <<pc, prev, upload, thr>>

RTPersist ==
    /\ pc = "fill"
    /\ Persist(NoFault)
    /\ pc' = "persisted"
    /\ prev' = [index |-> index, ids |-> ids]
    /\ UNCHANGED <<upload, thr>>

RTFresh ==
    /\ pc = "persisted"
    /\ \E dim \in Dims, metric \in {"ip", "l2"} : FaissStoreInit(dim, metric)
    /\ pc' = "fresh"
    /\ UNCHANGED <<prev, upload, thr>>

RTLoad ==
    /\ pc = "fresh"
    /\ Load("none")
    /\ pc' = "loaded"
    /\ UNCHANGED <<prev, upload, thr>>

RTSearch ==
    /\ pc = "loaded"
    /\ \E q \in Queries, k \in TopKs : SearchByVector(q, k)
    /\ UNCHANGED <<pc, prev, upload, thr>>

NextRoundTrip ==
    RTConstruct \/ RTUpsert \/ RTPersist \/ RTFresh \/ RTLoad \/ RTSearch

SpecRoundTrip == Init /\ [][NextRoundTrip]_vars

----------------------------------------------------------------------------
(* The upload pipeline: the application starts (and restarts) on one data  *)
(* directory, documents are uploaded, and Chunker.process is also called   *)
(* on its own.                                                             *)

NextUpload ==
    \/ /\ AppStart
       /\ UNCHANGED <<pc, prev, upload, thr>>
    \/ /\ \E text \in Texts, doc_id \in DocIds, base_meta \in BaseMetas,
             split \in SplitOutcomes, emb \in EmbedOutcomes :
            ChunkerProcess(text, doc_id, base_meta, split, emb)
       /\ UNCHANGED <<pc, prev, thr>>
    \/ /\ \E pdf \in Pdfs, doc_id \in DocIds,
             split \in SplitOutcomes, emb \in EmbedOutcomes :
            HandleUpload(pdf, doc_id, split, emb)
       /\ UNCHANGED <<pc, prev, thr>>

SpecUpload == Init /\ [][NextUpload]_vars

----------------------------------------------------------------------------
(* Two searches interleaved on one store, with no upsert in flight: the    *)
(* store holds a fixture and each thread makes one search.                 *)

InitConcurrent ==
    \E metric \in {"ip", "l2"},
       items \in UNION { [1..n -> WellFormedItems] : n \in 1..MaxItems } :
      /\ dirExists = TRUE
      /\ constructed = TRUE
      /\ index = IndexAdd(NewIndex(2, metric), items)
      /\ ids = ItemIds(items)
      /\ metaFile = AppendMeta([exists |-> TRUE, data |-> <<>>], items, NoFault)
      /\ idxFile = WriteIndex(index)
      /\ idsFile = JsonDump(ids)
      /\ ret = NoRet("upsert", "ok")
      /\ nStores = 1
      /\ nFaults = 0
      /\ pc = "run"
      /\ prev = NoPrev
      /\ upload = NoUpload
      /\ thr = NoThreads

NextConcurrent ==
    \/ /\ \E t \in Threads, q \in Queries, k \in TopKs : CallSearchByVector(t, q, k)
       /\ SearchWritesNothing /\ UNCHANGED <<pc, prev, upload>>
    \/ /\ \E t \in Threads, k \in TopKs : CallSearchByText(t, k)
       /\ SearchWritesNothing /\ UNCHANGED <<pc, prev, upload>>
    \/ /\ \E t \in Threads : EmbedQuery(t)
       /\ SearchWritesNothing /\ UNCHANGED <<pc, prev, upload>>
    \/ /\ \E t \in Threads : CheckIds(t)
       /\ SearchWritesNothing /\ UNCHANGED <<pc, prev, upload>>
    \/ /\ \E t \in Threads : SearchIndex(t)
       /\ SearchWritesNothing /\ UNCHANGED <<pc, prev, upload>>
    \/ /\ \E t \in Threads : ReadMeta(t)
       /\ SearchWritesNothing /\ UNCHANGED <<pc, prev, upload>>
    \/ /\ \E t \in Threads : BuildHits(t)
       /\ SearchWritesNothing /\ UNCHANGED <<pc, prev, upload>>

SpecConcurrent == InitConcurrent /\ [][NextConcurrent]_vars

----------------------------------------------------------------------------
(* Claims. *)

\* s is a prefix of t
IsPrefix(s, t) == Len(s) <= Len(t) /\ SubSeq(t, 1, Len(s)) = s

\* the sidecar record the store is to keep for an item
RecordOf(it) ==
    [kind |-> "rec", id |-> it.id,
     text |-> IF "text" \in DOMAIN it THEN it.text ELSE "",
     metadata |-> IF "metadata" \in DOMAIN it THEN it.metadata ELSE "{}"]

\* this step put the whole batch, in order, after what the index, the ID list
\* and the sidecar held, and left the index file and the ID-list file equal
\* to the index and the ID list in memory
BatchAppended(items) ==
    LET k == Len(items)
        N == Len(index.xb)
        L == Len(ids)
        M == Len(metaFile.data)
    IN /\ HasField(items, "vector") /\ HasField(items, "id")
       /\ index'.metric = index.metric /\ index'.d = index.d
       /\ Len(index'.xb) = N + k
       /\ IsPrefix(index.xb, index'.xb)
       /\ \A j \in 1..k : index'.xb[N + j] = items[j].vector
       /\ Len(ids') = L + k
       /\ IsPrefix(ids, ids')
       /\ \A j \in 1..k : ids'[L + j] = items[j].id
       /\ metaFile'.exists
       /\ Len(metaFile'.data) = M + k
       /\ IsPrefix(metaFile.data, metaFile'.data)
       /\ \A j \in 1..k : metaFile'.data[M + j] = RecordOf(items[j])
       /\ idxFile'.st = "ok"
       /\ idxFile'.fourcc = (IF index'.metric = "ip" THEN "IxFI" ELSE "IxF2")
       /\ idxFile'.d = index'.d
       /\ idxFile'.ntotal = Len(index'.xb)
       /\ idxFile'.xb = index'.xb
       /\ idsFile'.st = "ok"
       /\ idsFile'.json = ids'

\* this step left the index, the ID list, the sidecar and both persisted
\* files as they were
NothingInserted == UNCHANGED <<index, ids, metaFile, idxFile, idsFile>>

\* C1: in every reachable state the ID list has as many entries as the index
\* has vectors (ids[i] names the vector at position i).
C1_IdsPairIndex == constructed => Len(ids) = Len(index.xb)

\* C2: after successful upserts, persist() and then load() in a freshly
\* constructed store on the same directory give the ID list the first store
\* had at persist() and, for every query and top_k, the same search results.
C2_RoundTrip ==
    pc = "loaded" =>
      /\ ids = prev.ids
      /\ \A q \in Queries, k \in TopKs :
           SearchResults(index, ids, metaFile, q, k)
             = SearchResults(prev.index, prev.ids, metaFile, q, k)

\* the second store has loaded two persisted vectors of an L2 store and a
\* search on it returned both
C2_Witness ==
    /\ pc = "loaded"
    /\ index.metric = "l2"
    /\ Len(prev.ids) = 2
    /\ ret.op = "search" /\ ret.outcome = "ok" /\ Len(ret.hits) = 2

\* C3: a successful upsert of a non-empty batch appends the vectors at
\* positions N..N+k-1, the IDs and the sidecar records in batch order, leaves
\* the earlier entries of all three as they were, and returns with the index
\* file and the ID-list file equal to the index and the ID list in memory.
C3_UpsertAppends ==
    [][ (ret'.op = "upsert" /\ ret'.outcome = "ok") =>
          \A items \in Batches \ {<<>>} : Upsert(items) => BatchAppended(items) ]_vars

\* a successful upsert left two different IDs in the store, persisted
C3_Witness ==
    /\ ret.op = "upsert" /\ ret.outcome = "ok"
    /\ Len(index.xb) = 2 /\ Len(ids) = 2 /\ ids[1] # ids[2]
    /\ idsFile.json = ids /\ Len(metaFile.data) = 2

\* C4: an upsert of a batch holding any vector whose length differs from the
\* dimension of the store's index raises and inserts nothing: the index, the
\* ID list, the sidecar and the persisted files are as before the call.
C4_DimensionGuard ==
    [][ ret'.op = "upsert" =>
          \A items \in Batches :
            ( /\ Upsert(items)
              /\ \E i \in 1..Len(items) :
                   "vector" \in DOMAIN items[i] /\ Len(items[i].vector) # index.d )
            => (ret'.outcome # "ok" /\ NothingInserted) ]_vars

\* a store of dimension 2 holding one persisted item has rejected a batch
\* whose vectors are all of another length
C4_Witness ==
    /\ ret.op = "upsert" /\ ret.outcome = "AssertionError"
    /\ index.d = 2 /\ Len(ids) = 1 /\ Len(index.xb) = 1 /\ idsFile.json = ids

\* C5: upsert is all-or-nothing: it returns normally only with the whole
\* batch in the index, the ID list, the sidecar and the persisted files, and
\* when it raises either the whole batch is in all of them or none of it is
\* in any of them.
C5_AllOrNothing ==
    [][ ret'.op = "upsert" =>
          \A items \in Batches \ {<<>>} :
            Upsert(items) =>
              /\ ret'.outcome = "ok" => BatchAppended(items)
              /\ BatchAppended(items) \/ NothingInserted ]_vars

\* C6: in every reachable state every ID of the ID list has a record with
\* that id in the sidecar file.
C6_IdsHaveSidecarRecord ==
    constructed =>
      \A i \in 1..Len(ids) :
        \E n \in 1..Len(metaFile.data) :
          metaFile.data[n].kind = "rec" /\ metaFile.data[n].id = ids[i]

\* the search the last call made was one the store is to answer: the store
\* holds N >= 1 items, the query has the index's dimension and top_k >= 1
AnswerableSearch ==
    /\ ret.op = "search"
    /\ ret.k >= 1
    /\ Len(ret.q) = index.d
    /\ Len(ids) >= 1
    /\ Len(ids) = Len(index.xb)

\* the hits of the last search are the min(top_k, N) best positions, best
\* first; with tiesByPosition, equal scores are in insertion order
RankedBestFirst(tiesByPosition) ==
    LET N == Len(ids)
        m == Min(ret.k, N)
        sc(p) == Score(index, ret.q, p)
        chosen == { ret.I[i] : i \in 1..m }
    IN /\ ret.outcome = "ok"
       /\ Len(ret.hits) = m
       /\ Len(ret.I) >= m
       /\ \A i \in 1..m : ret.I[i] \in 1..N /\ ret.hits[i].id = ids[ret.I[i]]
       /\ \A i, j \in 1..m :
            i < j => /\ ret.I[i] # ret.I[j]
                     /\ ~Better(index.metric, sc(ret.I[j]), sc(ret.I[i]))
                     /\ (tiesByPosition /\ sc(ret.I[i]) = sc(ret.I[j]))
                          => ret.I[i] < ret.I[j]
       /\ \A p \in (1..N) \ chosen :
            \A i \in 1..m :
              /\ ~Better(index.metric, sc(p), sc(ret.I[i]))
              /\ (tiesByPosition /\ sc(p) = sc(ret.I[i])) => ret.I[i] < p

\* the spec's fixture: [1,0], [0,1], [0.9,0.1] stored under three ids, inner
\* product, query [1,0], top_k = 2
SmallFixture ==
    /\ index.metric = "ip"
    /\ index.xb = << <<10, 0>>, <<0, 10>>, <<9, 1>> >>
    /\ ids = <<"a", "b", "c">>
    /\ ret.op = "search" /\ ret.q = <<10, 0>> /\ ret.k = 2

SmallFixtureAnswer ==
    /\ Len(ret.hits) = 2
    /\ ret.hits[1].id = "a"
    /\ ret.hits[2].id = "c"
    /\ ret.hits[1].score > ret.hits[2].score

C8_OwnScore ==
    (ret.op = "search" /\ ret.outcome = "ok") =>
      LET kept == KeptRanks(ret.I, ids) IN
        /\ Len(ret.hits) = Len(kept)
        /\ \A h \in 1..Len(ret.hits) :
             ret.hits[h].score = Score(index, ret.q, ret.I[kept[h]])

\* C9: a search over a store whose sidecar lacks a record for a stored ID or
\* is otherwise corrupted never fails, and a hit whose ID has no usable
\* record is returned with text "" and metadata {}.
C9_SidecarResilience ==
    AnswerableSearch =>
      /\ ret.outcome = "ok"
      /\ \A h \in 1..Len(ret.hits) :
           (\A n \in 1..Len(Lines(metaFile.data)) :
              Lines(metaFile.data)[n].kind # "rec"
              \/ Lines(metaFile.data)[n].id # ret.hits[h].id)
           => (ret.hits[h].text = "" /\ ret.hits[h].metadata = "{}")

\* C10: a constructor call with a metric other than 'ip' or 'l2' raises and
\* leaves the files of the data directory as they were; search_by_vector with
\* top_k < 1 raises and leaves the index, the ID list and the files unchanged.
C10_RejectsMalformed ==
    [][ /\ \A dim \in Dims, metric \in MetricArgs \ {"ip", "l2"} :
             FaissStoreInit(dim, metric) =>
               (ret'.outcome # "ok" /\ UNCHANGED <<idxFile, idsFile, metaFile>>)
        /\ \A q \in Queries, k \in TopKs :
             (k < 1 /\ SearchByVector(q, k)) =>
               (ret'.outcome # "ok" /\ UNCHANGED <<index, ids, disk>>) ]_vars

\* every character of the text is a blank (the empty text included)
AllBlank(text) == \A i \in 1..Len(text) : text[i] = " "

\* C11: upsert([]) returns normally and leaves the index, the ID list, the
\* sidecar and the persisted files as they were; Chunker.process of an empty
\* or whitespace-only text returns an empty list and calls neither the
\* splitter nor the storage embedding function.
C11_EmptyInputsNoOp ==
    [][ /\ Upsert(<<>>) => (ret'.outcome = "ok" /\ NothingInserted)
        /\ (upload'.op = "process" /\ AllBlank(upload'.text))
             => /\ upload'.outcome = "ok"
                /\ upload'.items = <<>>
                /\ upload'.splits = 0
                /\ upload'.embeds = 0 ]_vars

\* the upload of a PDF without text has called store.upsert with no items, on
\* a store whose persisted ID list holds an item the ID list in memory does not
C11_Witness ==
    /\ upload.op = "handle_upload" /\ upload.outcome = "ok"
    /\ upload.text = <<>> /\ upload.items = <<>>
    /\ upload.splits = 0 /\ upload.embeds = 0 /\ upload.upserts = 1
    /\ ret.op = "upsert" /\ ret.outcome = "ok"
    /\ ids = <<>> /\ idsFile.st = "ok" /\ Len(idsFile.json) = 1

\* in the last call the storage embedding function was called and failed, or
\* returned a number of vectors other than the number of chunks
EmbeddingFailed(u) ==
    /\ u.embeds = 1
    /\ u.embRaised \/ u.vectors # u.chunks

\* C12: when the storage embedding function fails or returns a number of
\* vectors different from the number of chunks, Chunker.process raises and
\* returns no items, and handle_upload does not call store.upsert: the index,
\* the ID list, the sidecar and the persisted files are as before the upload.
C12_ProcessAllOrNothing ==
    [][ /\ EmbeddingFailed(upload')
             => /\ upload'.outcome # "ok"
                /\ upload'.items = <<>>
                /\ upload'.upserts = 0
        /\ (upload'.op = "handle_upload" /\ EmbeddingFailed(upload') /\ ~AppStart)
             => NothingInserted ]_vars

\* an upload whose embedding count did not match its chunk count has failed
\* on a store that holds an earlier document's chunk
C12_Witness ==
    /\ upload.op = "handle_upload" /\ upload.outcome = "ValueError"
    /\ upload.embeds = 1 /\ upload.upserts = 0
    /\ Len(ids) = 1 /\ idsFile.st = "ok" /\ idsFile.json = ids
    /\ Len(metaFile.data) = 1

\* C13: across every step of every operation the sidecar's content before
\* the step is a prefix of its content after the step, the file once there
\* stays, and only an upsert step changes the content.
C13_SidecarAppendOnly ==
    [][ /\ metaFile.exists => metaFile'.exists
        /\ IsPrefix(metaFile.data, metaFile'.data)
        /\ metaFile'.data # metaFile.data => ret'.op = "upsert" ]_vars

\* a second store instance on the directory has appended its item's record
\* after the record the first instance wrote
C13_Witness ==
    /\ nStores = 2
    /\ ret.op = "upsert" /\ ret.outcome = "ok"
    /\ Len(ids) = 1 /\ Len(metaFile.data) = 2
    /\ metaFile.data[2].id = ids[1] /\ metaFile.data[1].id # ids[1]

\* C14: when the index file and the ID-list file both exist, a load() that
\* returns or raises has replaced both the index and the ID list in memory by
\* the files' contents, or has left both as they were.
C14_LoadAtomic ==
    [][ (ret'.op = "load" /\ idxFile.st # "missing" /\ idsFile.st # "missing") =>
          \A rfault \in ReadFaults :
            Load(rfault) =>
              \/ idxFile.st = "ok" /\ idsFile.st = "ok"
                 /\ index' = ReadIndex(idxFile) /\ ids' = JsonLoad(idsFile)
              \/ UNCHANGED <<index, ids>> ]_vars

\* the sizes load() leaves in memory when it reads every file that exists
DurableIndexSize == IF idxFile.st = "missing" THEN Len(index.xb) ELSE idxFile.ntotal

DurableIdsSize == IF idsFile.st = "missing" THEN Len(ids) ELSE Len(idsFile.json)

\* C15: a load() that finds readable durable state (at least one of the two
\* files) in which the ID list's length differs from the index's vector count
\* raises an error.
C15_LoadMismatchSurfaced ==
    [][ ( /\ ret'.op = "load"
          /\ idxFile.st # "corrupt" /\ idsFile.st # "corrupt"
          /\ idxFile.st = "ok" \/ idsFile.st = "ok"
          /\ DurableIndexSize # DurableIdsSize )
        => \A rfault \in ReadFaults : Load(rfault) => ret'.outcome # "ok" ]_vars

\* C16: every step of a constructed instance (load, upsert, persist, search)
\* leaves the index in use with the metric and the dimension it had, which
\* are those the instance was constructed with.
C16_MetricDimFixed ==
    [][ (constructed /\ ret'.op \in {"load", "upsert", "persist", "search"}) =>
          (index'.metric = index.metric /\ index'.d = index.d) ]_vars

\* C17: every result of a search carries the text and metadata of the last
\* sidecar record with the ID of the position that produced the hit.
C17_LastWriteWins ==
    (ret.op = "search" /\ ret.outcome = "ok") =>
      LET kept == KeptRanks(ret.I, ids)
          data == metaFile.data
          written(id) == { n \in 1..Len(data) : data[n].kind = "rec" /\ data[n].id = id }
          last(id) == data[CHOOSE n \in written(id) : \A o \in written(id) : o <= n]
      IN /\ Len(ret.hits) = Len(kept)
         /\ \A h \in 1..Len(kept) :
              LET id == ids[ret.I[kept[h]]] IN
                written(id) # {} =>
                  /\ ret.hits[h].id = id
                  /\ ret.hits[h].text = last(id).text
                  /\ ret.hits[h].metadata = last(id).metadata

\* a search has hit the position of the first of two items stored under one
\* ID and returned the text and metadata of the second
C17_Witness ==
    /\ ret.op = "search" /\ ret.outcome = "ok" /\ Len(ret.hits) = 1
    /\ ret.I[1] = 1
    /\ Len(ids) >= 2 /\ ids[1] = "a" /\ ids[2] = "a"
    /\ metaFile.data[1].text = "x" /\ metaFile.data[2].text = "y"
    /\ ret.hits[1].text = "y" /\ ret.hits[1].metadata = "{k:2}"

\* C18: no step of a search_by_vector or search_by_text call changes the
\* index, the ID list, the sidecar or the persisted files, and each of two
\* interleaved searches ends with a result the same search returns when it
\* runs alone on the store.
C18_SearchesReadOnly ==
    [][ /\ thr' # thr => UNCHANGED <<index, ids, disk>>
        /\ \A t \in Threads :
             (thr'[t].pc = "done" /\ thr'[t].q # <<>>) =>
               \E r \in SearchResults(index, ids, metaFile, thr'[t].q, thr'[t].k) :
                 r.outcome = thr'[t].outcome /\ r.hits = thr'[t].hits ]_vars

\* the first thread's search has returned two hits while the second thread's
\* search, of another query, has read the index and the sidecar and is about
\* to build its hits
C18_Witness ==
    /\ thr[1].pc = "done" /\ thr[1].outcome = "ok" /\ Len(thr[1].hits) = 2
    /\ thr[2].pc = "loop" /\ Len(thr[2].I) = 1
    /\ thr[1].q # thr[2].q

\* C19: a successful upsert leaves a persisted ID list that has the ID list
\* persisted before the upsert as a prefix.
C19_DurableGrows ==
    [][ (ret'.op = "upsert" /\ ret'.outcome = "ok" /\ idsFile.st = "ok") =>
          (idsFile'.st = "ok" /\ IsPrefix(idsFile.json, idsFile'.json)) ]_vars

====
